---- MODULE Spec2Model ----
(***************************************************************************)
(* merkle-run (src/merklerun.py): the hash-chained event logger, the       *)
(* file / socket / subprocess shims and run_instrumented, driven by a      *)
(* target script that performs boundary operations; verify_run and the     *)
(* diff command on the manifests that runs leave behind.                   *)
(*                                                                         *)
(* Conventions of the model                                                *)
(*  - SHA-256 is a symbolic injective function: SHA256(x) = <<"sha256",x>>.*)
(*  - a Python str or bytes value is a sequence (of one-character strings, *)
(*    code points or byte values), so that "c in s", len and concatenation *)
(*    are computed as Python computes them.                                *)
(*  - a path is [abs, parts]; os.path.abspath resolves it against cwd.     *)
(*  - time.monotonic() is the variable mono, in microseconds, so that      *)
(*    round(rel, 6) keeps the measured value.                              *)
(***************************************************************************)
EXTENDS Integers, Sequences, FiniteSets, TLC

VARIABLES
    pc,               \* position of run_instrumented / of its caller
    run,              \* 1: first run, 2: the second run (independent or verify)
    trace,            \* boundary behaviour of the target in the first run
    pos,              \* number of target steps taken in the current run
    ref,              \* what the caller got from the first run
    seed, allow_net, args_line,   \* arguments of run_instrumented
    builtins_open, socket_socket, subprocess_Popen, sys_argv,
    undo,             \* locals undo_open, undo_sock, undo_popen, old_argv
    events, prev_hash, start_mono, start_wall, env,   \* EventLogger fields
    mono,             \* time.monotonic()
    cwd, fs,          \* os.getcwd() and the files on disk
    handles,          \* the IOShim objects, in creation order
    numpy_ok,         \* whether numpy can be imported and seeded
    socks,            \* number of SocketShim objects created
    real_net,         \* calls that reached the real socket.connect/send/recv
    spawned,          \* calls that reached the real subprocess.Popen.__init__
    pending,          \* exception raised inside the target, not yet handled
    returned,         \* value returned by run_instrumented (None: nothing)
    raised,           \* exception that reached the caller of run_instrumented
    man_a,            \* verify: the reference manifest; diff: manifest A
    man_b,            \* verify: the manifest of the re-run; diff: manifest B
    result            \* what verify_run returned or what diff printed

vars == <<pc, run, trace, pos, ref, seed, allow_net, args_line,
          builtins_open, socket_socket, subprocess_Popen, sys_argv, undo,
          events, prev_hash, start_mono, start_wall, env, mono, cwd, fs,
          handles, numpy_ok,
          socks, real_net, spawned, pending, returned, raised,
          man_a, man_b, result>>

----------------------------------------------------------------------------
(* Bounds of the model *)

MaxOps == 3            \* boundary calls made by the target and by later code
MaxClock == 1          \* last value of the monotonic clock
RecursionLimit == 2    \* depth at which the interpreter raises RecursionError

----------------------------------------------------------------------------
(* Values *)

None == <<>>

\* no exception
NoExc == "NoExc"

Range(s) == {s[i] : i \in 1..Len(s)}

SHA256(x) == <<"sha256", x>>

HexLen == 64

\* "0" * 64
ZeroHash == [i \in 1..HexLen |-> "0"]

----------------------------------------------------------------------------
(* EventLogger *)

\* every key of a dict that is hashed, in the order sort_keys=True gives
SortedKeys == <<"args", "bytes", "chain", "cmd", "error", "events", "host",
                "kind", "lib", "mode", "path", "port", "req", "seed",
                "sha256", "status", "t", "target">>

\* json.dumps(d, sort_keys=True, separators=(",", ":")): the key/value pairs
\* of d in sorted key order
dumps(d) ==
    LET ks == SelectSeq(SortedKeys, LAMBDA k : k \in DOMAIN d)
    IN  [i \in 1..Len(ks) |-> <<ks[i], d[ks[i]]>>]

_hash_dict(d) == SHA256(dumps(d))

\* _chain with the previous hash left out of the combined string
_chain_unlinked(prev, event) == SHA256(<<ZeroHash, _hash_dict(event)>>)

\* the new chain hash; (prev + h_event) is the pair of the two digests
_chain(prev, event) ==
    LET h_event == _hash_dict(event)
        combined == <<prev, h_event>>
    IN  SHA256(combined)

\* log without "self.prev_hash = h": every event is chained to the zeros
log_stale(L, now, kind, fields) ==
    LET rel == now - start_mono
        event == fields @@ [t |-> rel, kind |-> kind]
        h == _chain(L.prev_hash, event)
    IN  [events |-> Append(L.events, [chain |-> h] @@ event),
         prev_hash |-> L.prev_hash]

\* EventLogger.log on the logger state L = [events, prev_hash], called at
\* monotonic time now; rel is a whole number of microseconds, which
\* round(rel, 6) keeps
log(L, now, kind, fields) ==
    LET rel == now - start_mono
        event == fields @@ [t |-> rel, kind |-> kind]
        h == _chain(L.prev_hash, event)
    IN  [events |-> Append(L.events, [chain |-> h] @@ event),
         prev_hash |-> h]

Logger == [events |-> events, prev_hash |-> prev_hash]

\* EventLogger.manifest(): the dict it returns; its "events" entry is the
\* list object self.events itself, so it is read through ManifestEvents
manifest_of(evs) ==
    [started_at_utc |-> start_wall,
     seed |-> seed,
     allow_net |-> allow_net,
     env |-> env,
     root_hash |-> _hash_dict([events |-> evs])]

ManifestEvents == events

\* a sequence of log calls <<[kind, fields], ...>> made at time now
RECURSIVE log_all(_, _, _)
log_all(L, now, calls) ==
    IF calls = <<>> THEN L
    ELSE log_all(log(L, now, calls[1].kind, calls[1].fields), now, Tail(calls))

----------------------------------------------------------------------------
(* Paths and files *)

Path(abs, parts) == [abs |-> abs, parts |-> parts]

CwdHome == <<"home">>
CwdTmp == <<"tmp">>

\* os.path.abspath(p) with the working directory c
abspath(c, p) == IF p.abs THEN p ELSE Path(TRUE, c \o p.parts)

Target == Path(FALSE, <<"target.py">>)
InBin == Path(TRUE, <<"data", "in.bin">>)
OutBin == Path(FALSE, <<"out.bin">>)

Files == {InBin.parts, CwdHome \o OutBin.parts, CwdTmp \o OutBin.parts}

NoFile == [exists |-> FALSE, data |-> <<>>]

\* the disk before a run: /data/in.bin holds one byte, out.bin is absent
InitFs == [p \in Files |-> IF p = InBin.parts
                             THEN [exists |-> TRUE, data |-> <<7>>]
                             ELSE NoFile]

\* os.path.exists
exists(ap) == ap.parts \in DOMAIN fs /\ fs[ap.parts].exists

\* open modes, as the strings of characters they are
ModeR == <<"r">>
ModeRB == <<"r", "b">>
ModeW == <<"w">>
ModeWB == <<"w", "b">>
ModeXB == <<"x", "b">>

\* the open calls the target makes
OpenArgs == {<<InBin, ModeRB>>, <<InBin, ModeR>>, <<OutBin, ModeRB>>,
             <<OutBin, ModeWB>>, <<OutBin, ModeW>>, <<OutBin, ModeXB>>}

\* the real open (original_open) on the disk d: [exc, fs]
original_open(d, c, path, mode) ==
    LET ap == abspath(c, path).parts
        there == ap \in DOMAIN d /\ d[ap].exists
    IN  IF "r" \in Range(mode)
        THEN [exc |-> IF there THEN NoExc ELSE "FileNotFoundError", fs |-> d]
        ELSE IF "x" \in Range(mode) /\ there
        THEN [exc |-> "FileExistsError", fs |-> d]
        ELSE IF "w" \in Range(mode) \/ ~there
        THEN [exc |-> NoExc,
              fs |-> [d EXCEPT ![ap] = [exists |-> TRUE, data |-> <<>>]]]
        ELSE [exc |-> NoExc, fs |-> d]

\* rf.read(1024 * 1024)
ChunkSize == 1024 * 1024

\* the read loop of hash_file over the bytes not yet read
RECURSIVE hash_chunks(_, _, _)
hash_chunks(rest, size, h) ==
    LET n == IF Len(rest) < ChunkSize THEN Len(rest) ELSE ChunkSize
        chunk == SubSeq(rest, 1, n)
    IN  IF chunk = <<>>
        THEN [size |-> size, sha |-> SHA256(h)]
        ELSE hash_chunks(SubSeq(rest, n + 1, Len(rest)), size + n, h \o chunk)

\* hash_file and open_wrapper call each other while builtins.open is the
\* wrapper: hash_file opens the file through the global name open.
\* depth is the number of frames on the stack; both return
\* [exc, logs, ...] where logs are the log calls made, in order.
RECURSIVE hash_file(_, _)
RECURSIVE open_wrapper(_, _, _)

hash_file(path, depth) ==
    IF depth > RecursionLimit
    THEN [exc |-> "RecursionError", logs |-> <<>>, size |-> 0, sha |-> None]
    ELSE LET o == IF builtins_open = "open_wrapper"
                  THEN open_wrapper(path, ModeRB, depth + 1)
                  ELSE [exc |-> original_open(fs, cwd, path, ModeRB).exc,
                        logs |-> <<>>]
             r == hash_chunks(fs[path.parts].data, 0, <<>>)
         IN  IF o.exc # NoExc
             THEN [exc |-> o.exc, logs |-> o.logs, size |-> 0, sha |-> None]
             ELSE [exc |-> NoExc, logs |-> o.logs, size |-> r.size, sha |-> r.sha]

open_wrapper(path, mode, depth) ==
    IF depth > RecursionLimit
    THEN [exc |-> "RecursionError", logs |-> <<>>, fs |-> fs, shim |-> FALSE]
    ELSE
    LET ap == abspath(cwd, path)
        reading == "r" \in Range(mode) /\ exists(ap)
        hf == hash_file(ap, depth + 1)
        mine == IF reading
                THEN [kind |-> "file_open_read",
                      fields |-> [path |-> ap, mode |-> mode,
                                  bytes |-> hf.size, sha256 |-> hf.sha]]
                ELSE [kind |-> "file_open",
                      fields |-> [path |-> ap, mode |-> mode]]
        f == original_open(fs, cwd, path, mode)
    IN  IF reading /\ hf.exc # NoExc
        THEN [exc |-> hf.exc, logs |-> hf.logs, fs |-> fs, shim |-> FALSE]
        ELSE [exc |-> f.exc,
              logs |-> (IF reading THEN hf.logs ELSE <<>>) \o <<mine>>,
              fs |-> f.fs,
              shim |-> f.exc = NoExc /\ (\E m \in {"w", "a", "x"} : m \in Range(mode))]

----------------------------------------------------------------------------
(* IOShim *)

\* payloads: bytes are sequences of byte values, str sequences of code points
Bytes(data) == [type |-> "bytes", data |-> data]
Str(data) == [type |-> "str", data |-> data]

RECURSIVE encode(_)
\* str.encode(): UTF-8 of code points below 2048
encode(cps) ==
    IF cps = <<>> THEN <<>>
    ELSE (IF cps[1] < 128 THEN <<cps[1]>>
          ELSE <<192 + (cps[1] \div 64), 128 + (cps[1] % 64)>>) \o encode(Tail(cps))

\* IOShim.__init__ for the file f just opened
IOShim(path, mode) ==
    [_path |-> path, _mode |-> mode, _written |-> 0, _hasher |-> <<>>,
     f_file |-> abspath(cwd, path).parts,
     f_text |-> "b" \notin Range(mode),
     f_closed |-> FALSE,
     delivered |-> <<>>,     \* the bytes f.write accepted
     wfail |-> FALSE]        \* a write on the handle has raised

\* f.write(b) on the underlying file: the exception it raises, if any
f_write_exc(h, b) ==
    IF h.f_closed THEN "ValueError"
    ELSE IF h.f_text /\ b.type = "bytes" THEN "TypeError"
    ELSE IF ~h.f_text /\ b.type = "str" THEN "TypeError"
    ELSE NoExc

\* IOShim.write with "self._written = len(b)" for "+="
IOShim_write_last(h, b0) ==
    LET b == IF b0.type = "str" THEN Bytes(encode(b0.data)) ELSE b0
        h1 == [h EXCEPT !._written = Len(b.data),
                        !._hasher = @ \o b.data]
        exc == f_write_exc(h, b)
    IN  IF exc # NoExc
        THEN [h |-> [h1 EXCEPT !.wfail = TRUE], exc |-> exc, ret |-> 0]
        ELSE [h |-> [h1 EXCEPT !.delivered = @ \o b.data],
              exc |-> NoExc, ret |-> Len(b.data)]

\* IOShim.write(b) on the shim state h: [h, exc, ret]
IOShim_write(h, b0) ==
    LET b == IF b0.type = "str" THEN Bytes(encode(b0.data)) ELSE b0
        h1 == [h EXCEPT !._written = @ + Len(b.data),
                        !._hasher = @ \o b.data]
        exc == f_write_exc(h, b)
    IN  IF exc # NoExc
        THEN [h |-> [h1 EXCEPT !.wfail = TRUE], exc |-> exc, ret |-> 0]
        ELSE [h |-> [h1 EXCEPT !.delivered = @ \o b.data],
              exc |-> NoExc, ret |-> Len(b.data)]

\* IOShim.writelines(lines): the loop over lines, stopped by an exception
RECURSIVE IOShim_writelines(_, _, _)
IOShim_writelines(h, lines, total) ==
    IF lines = <<>> THEN [h |-> h, exc |-> NoExc, ret |-> total]
    ELSE LET w == IOShim_write(h, lines[1])
         IN  IF w.exc # NoExc THEN w
             ELSE IOShim_writelines(w.h, Tail(lines), total + w.ret)

\* IOShim.close(): f.close() and then, in the finally block, the log call
IOShim_close(h, L, now) ==
    LET h1 == [h EXCEPT !.f_closed = TRUE]
    IN  [h |-> h1,
         L |-> IF \E m \in {"w", "a", "x"} : m \in Range(h._mode)
               THEN log(L, now, "file_write_close",
                        [path |-> abspath(cwd, h._path),
                         bytes |-> h._written,
                         sha256 |-> SHA256(h._hasher)])
               ELSE L]

\* what the class IOShim defines
IOShimMethods == {"__init__", "write", "writelines", "close", "__getattr__"}

\* h.name, for a name the file object has: the attribute of the class when
\* it defines one, and otherwise, by __getattr__, the attribute of the file
IOShim_getattr(name) == IF name \in IOShimMethods THEN "IOShim" ELSE "file"

\* the lookup of a special method by a statement: on the class only, so
\* that __getattr__ is not consulted
special_lookup(name) ==
    IF name \in IOShimMethods THEN "IOShim" ELSE "missing"

\* a with statement on an object without __enter__ or __exit__ raises
\* TypeError, and AttributeError before Python 3.11
WithExcs == {"TypeError", "AttributeError"}

\* f.flush() on the underlying file: the exception it raises, if any
f_flush_exc(h) == IF h.f_closed THEN "ValueError" ELSE NoExc

----------------------------------------------------------------------------
(* SocketShim and PopenShim *)

Address == <<"example.org", 80>>
SendData == {Bytes(<<1, 2>>), Str(<<233>>)}
RecvData == <<5, 6, 7>>
BufSizes == {2}

PolicyError == "PermissionError"

\* SocketShim.connect(address); real_exc is what the real connect raises.
\* Returns [L, exc, real]: real counts the calls of super().connect
SocketShim_connect(L, now, address, real_exc) ==
    LET host == address[1]
        port == address[2]
    IN  IF ~allow_net
        THEN [L |-> log(L, now, "net_block", [host |-> host, port |-> port]),
              exc |-> PolicyError, real |-> 0]
        ELSE [L |-> log(L, now, "net_connect", [host |-> host, port |-> port]),
              exc |-> real_exc, real |-> 1]

\* SocketShim.send that logs the block and then sends all the same
SocketShim_send_through(L, now, data, real_exc) ==
    [L |-> log(L, now, IF allow_net THEN "net_send" ELSE "net_block_send",
               [bytes |-> Len(data.data)]),
     exc |-> real_exc, real |-> 1]

\* SocketShim.send(data)
SocketShim_send(L, now, data, real_exc) ==
    IF ~allow_net
    THEN [L |-> log(L, now, "net_block_send", [bytes |-> Len(data.data)]),
          exc |-> PolicyError, real |-> 0]
    ELSE LET sha == SHA256(IF data.type = "bytes" THEN data.data
                           ELSE encode(data.data))
         IN  [L |-> log(L, now, "net_send",
                        [bytes |-> Len(data.data), sha256 |-> sha]),
              exc |-> IF data.type = "str" THEN "TypeError" ELSE real_exc,
              real |-> 1]

\* SocketShim.recv(bufsize)
SocketShim_recv(L, now, bufsize, real_exc) ==
    IF ~allow_net
    THEN [L |-> log(L, now, "net_block_recv", [req |-> bufsize]),
          exc |-> PolicyError, real |-> 0]
    ELSE LET data == SubSeq(RecvData, 1, bufsize)
         IN  IF real_exc # NoExc
             THEN [L |-> L, exc |-> real_exc, real |-> 1]
             ELSE [L |-> log(L, now, "net_recv",
                             [bytes |-> Len(data), sha256 |-> SHA256(data)]),
                   exc |-> NoExc, real |-> 1]

\* " ".join(parts)
RECURSIVE join(_)
join(parts) ==
    IF parts = <<>> THEN <<>>
    ELSE IF Len(parts) = 1 THEN parts[1]
    ELSE parts[1] \o <<" ">> \o join(Tail(parts))

\* the commands the target spawns: an argument list or one string
PopenArgs == {[list |-> TRUE, v |-> <<<<"l", "s">>, <<"-", "l">>>>],
              [list |-> FALSE, v |-> <<"l", "s">>]}

\* PopenShim.__init__(args): the log call made before the real spawn
PopenShim_init(L, now, args) ==
    LET cmd == IF args.list THEN args.v ELSE <<args.v>>
    IN  log(L, now, "subprocess_spawn", [cmd |-> join(cmd)])

----------------------------------------------------------------------------
(* run_instrumented *)

\* s.split(): the whitespace-separated words of s
RECURSIVE split_from(_, _, _)
split_from(s, cur, out) ==
    IF s = <<>> THEN (IF cur = <<>> THEN out ELSE Append(out, cur))
    ELSE IF s[1] = " "
    THEN split_from(Tail(s), <<>>, IF cur = <<>> THEN out ELSE Append(out, cur))
    ELSE split_from(Tail(s), Append(cur, s[1]), out)

split(s) == split_from(s, <<>>, <<>>)

\* the values of --args: absent, or "a b"
ArgsLines == {None, <<"a", " ", "b">>}

\* --seed, by default
DefaultSeed == 1337

\* sys.argv of the process before the run
CallerArgv == <<Path(FALSE, <<"merklerun.py">>), <<"r", "u", "n">>>>

\* the exceptions the target's own code raises
TargetExcs == {"ValueError", "SystemExit"}

\* isinstance(e, Exception): SystemExit and KeyboardInterrupt are not
IsException(e) == e \notin {"SystemExit", "KeyboardInterrupt"}

\* seed_all(seed, logger)
seed_all(L, now) ==
    LET L1 == log(L, now, "rng_seed", [lib |-> "random", seed |-> seed])
    IN  IF numpy_ok
        THEN log(L1, now, "rng_seed", [lib |-> "numpy", seed |-> seed])
        ELSE log(L1, now, "rng_seed_skip", [lib |-> "numpy"])

\* the except clause of run_instrumented for the failure e
except_clause(L, now, e) ==
    IF IsException(e)
    THEN log(L, now, "end", [status |-> "exception", error |-> e])
    ELSE L

\* a finally block that does not put sys.argv back
finally_block_keeps_argv(u) ==
    [builtins_open |-> u.undo_open,
     socket_socket |-> u.undo_sock,
     subprocess_Popen |-> u.undo_popen,
     sys_argv |-> sys_argv]

\* the finally block of run_instrumented: the bindings it leaves
finally_block(u) ==
    [builtins_open |-> u.undo_open,
     socket_socket |-> u.undo_sock,
     subprocess_Popen |-> u.undo_popen,
     sys_argv |-> u.old_argv]

\* what run_instrumented hands to its caller when the target fails with e:
\* the raise statement re-raises, the return statement is not reached
on_failure(e) == [returned |-> None, raised |-> e]

----------------------------------------------------------------------------
(* The behaviour of the target, recorded for the second run *)

Replay(op) == run = 1 \/ (pos < Len(trace) /\ trace[pos + 1] = op)

Record(op) ==
    /\ Replay(op)
    /\ trace' = IF run = 1 THEN Append(trace, op) ELSE trace
    /\ pos' = pos + 1

Budget == pos < MaxOps

InTarget == pc = "target" /\ pending = NoExc

\* IOShim objects outlive the run: their methods can be called later
Alive == pc \in {"target", "returned", "raised"} /\ pending = NoExc

SetLogger(L) == events' = L.events /\ prev_hash' = L.prev_hash

----------------------------------------------------------------------------
(* Actions *)

\* the process before run_instrumented is called, for the given choices of
\* --allow-net, --args and of the presence of numpy
InitRun(nets, lines, numpys) ==
    /\ pc = "idle" /\ run = 1 /\ trace = <<>> /\ pos = 0 /\ ref = None
    /\ seed = DefaultSeed
    /\ allow_net \in nets
    /\ args_line \in lines
    /\ numpy_ok \in numpys
    /\ builtins_open = "builtins.open"
    /\ socket_socket = "socket.socket"
    /\ subprocess_Popen = "subprocess.Popen"
    /\ sys_argv = CallerArgv
    /\ undo = None
    /\ events = <<>> /\ prev_hash = ZeroHash
    /\ start_mono = 0 /\ start_wall = 0 /\ env = None /\ mono = 0
    /\ cwd = CwdHome /\ fs = InitFs
    /\ handles = <<>> /\ socks = 0 /\ real_net = 0 /\ spawned = 0
    /\ pending = NoExc /\ returned = None /\ raised = NoExc

\* the same, with no manifest loaded for verify or diff
InitWith(nets, lines, numpys) ==
    /\ InitRun(nets, lines, numpys)
    /\ man_a = None /\ man_b = None /\ result = None

\* time passes
Tick ==
    /\ mono < MaxClock
    /\ mono' = mono + 1
    /\ UNCHANGED <<man_a, man_b, result,
                   pc, run, trace, pos, ref, seed, allow_net, args_line,
                   builtins_open, socket_socket, subprocess_Popen, sys_argv,
                   undo, events, prev_hash, start_mono, start_wall, env, cwd, fs,
                   handles, numpy_ok, socks, real_net, spawned, pending,
                   returned, raised>>

\* EventLogger(seed, allow_net), patch_open, patch_socket, patch_subprocess
Construct ==
    /\ pc = "idle"
    /\ pc' = "patched"
    /\ start_wall' = mono /\ start_mono' = mono
    /\ env' = [cwd |-> cwd]
    /\ events' = <<>> /\ prev_hash' = ZeroHash
    /\ undo' = [undo_open |-> builtins_open, undo_sock |-> socket_socket,
                undo_popen |-> subprocess_Popen, old_argv |-> None]
    /\ builtins_open' = "open_wrapper"
    /\ socket_socket' = "SocketShim"
    /\ subprocess_Popen' = "PopenShim"
    /\ UNCHANGED <<man_a, man_b, result,
                   run, trace, pos, ref, seed, allow_net, args_line, sys_argv,
                   mono, cwd, fs, handles, numpy_ok, socks, real_net, spawned,
                   pending, returned, raised>>

\* seed_all(seed, logger)
SeedAll ==
    /\ pc = "patched"
    /\ pc' = "seeded"
    /\ SetLogger(seed_all(Logger, mono))
    /\ UNCHANGED <<man_a, man_b, result,
                   run, trace, pos, ref, seed, allow_net, args_line,
                   builtins_open, socket_socket, subprocess_Popen, sys_argv,
                   undo, start_mono, start_wall, env, mono, cwd, fs, handles,
                   numpy_ok, socks, real_net, spawned, pending, returned,
                   raised>>

\* old_argv, sys.argv and the begin event
Begin ==
    /\ pc = "seeded"
    /\ pc' = "target"
    /\ undo' = [undo EXCEPT !.old_argv = sys_argv]
    /\ sys_argv' = <<Target>> \o split(args_line)
    /\ SetLogger(log(Logger, mono, "begin",
                     [target |-> abspath(cwd, Target),
                      args |-> Tail(sys_argv')]))
    /\ UNCHANGED <<man_a, man_b, result,
                   run, trace, pos, ref, seed, allow_net, args_line,
                   builtins_open, socket_socket, subprocess_Popen,
                   start_mono, start_wall, env, mono, cwd, fs, handles, numpy_ok,
                   socks, real_net, spawned, pending, returned, raised>>

\* the target runs to its end: end{ok}, the finally block, the manifest
TargetReturn ==
    /\ InTarget
    /\ Record([name |-> "return"])
    /\ pc' = "returned"
    /\ SetLogger(log(Logger, mono, "end", [status |-> "ok"]))
    /\ builtins_open' = finally_block(undo).builtins_open
    /\ socket_socket' = finally_block(undo).socket_socket
    /\ subprocess_Popen' = finally_block(undo).subprocess_Popen
    /\ sys_argv' = finally_block(undo).sys_argv
    /\ returned' = manifest_of(events')
    /\ UNCHANGED <<man_a, man_b, result,
                   run, ref, seed, allow_net, args_line, undo, start_mono,
                   start_wall, env, mono, cwd, fs, handles, numpy_ok, socks,
                   real_net, spawned, pending, raised>>

\* a failure leaves the target: one it raised itself, or a pending one
TargetRaise(e) ==
    /\ pc = "target"
    /\ e \in (IF pending = NoExc THEN TargetExcs ELSE {pending})
    /\ Record([name |-> "raise", e |-> e])
    /\ pc' = "raised"
    /\ SetLogger(except_clause(Logger, mono, e))
    /\ builtins_open' = finally_block(undo).builtins_open
    /\ socket_socket' = finally_block(undo).socket_socket
    /\ subprocess_Popen' = finally_block(undo).subprocess_Popen
    /\ sys_argv' = finally_block(undo).sys_argv
    /\ returned' = on_failure(e).returned
    /\ raised' = on_failure(e).raised
    /\ pending' = NoExc
    /\ UNCHANGED <<man_a, man_b, result,
                   run, ref, seed, allow_net, args_line, undo, start_mono,
                   start_wall, env, mono, cwd, fs, handles, numpy_ok, socks,
                   real_net, spawned>>

\* the calling code handles the exception a call has raised
Catch ==
    /\ pc \in {"target", "returned", "raised"}
    /\ pending # NoExc
    /\ Record([name |-> "catch"])
    /\ pending' = NoExc
    /\ UNCHANGED <<man_a, man_b, result,
                   pc, run, ref, seed, allow_net, args_line, builtins_open,
                   socket_socket, subprocess_Popen, sys_argv, undo, events,
                   prev_hash, start_mono, start_wall, env, mono, cwd, fs, handles,
                   numpy_ok, socks, real_net, spawned, returned, raised>>

\* payloads the target writes
Payloads == {Bytes(<<1, 2>>), Str(<<233>>)}
LineLists == {<<Bytes(<<1, 2>>), Bytes(<<3>>)>>}

\* the bytes a write call added to the file under the handle
Flush(d, h0, h1) ==
    [d EXCEPT ![h0.f_file].data =
        @ \o SubSeq(h1.delivered, Len(h0.delivered) + 1, Len(h1.delivered))]

\* the target calls open(path, mode): the name is looked up in builtins
Open(path, mode) ==
    /\ InTarget /\ Budget
    /\ Record([name |-> "open", path |-> path, mode |-> mode])
    /\ LET r == IF builtins_open = "open_wrapper"
                THEN open_wrapper(path, mode, 1)
                ELSE original_open(fs, cwd, path, mode)
                         @@ [logs |-> <<>>, shim |-> FALSE]
       IN  /\ SetLogger(log_all(Logger, mono, r.logs))
           /\ fs' = r.fs
           /\ handles' = IF r.shim THEN Append(handles, IOShim(path, mode))
                         ELSE handles
           /\ pending' = r.exc
    /\ UNCHANGED <<man_a, man_b, result,
                   pc, run, ref, seed, allow_net, args_line, builtins_open,
                   socket_socket, subprocess_Popen, sys_argv, undo,
                   start_mono, start_wall, env, mono, cwd, numpy_ok, socks,
                   real_net, spawned, returned, raised>>

\* handle.write(b) on an IOShim
Write(h, b) ==
    /\ Alive /\ Budget
    /\ h \in DOMAIN handles
    /\ Record([name |-> "write", h |-> h, b |-> b])
    /\ LET w == IOShim_write(handles[h], b)
       IN  /\ handles' = [handles EXCEPT ![h] = w.h]
           /\ fs' = Flush(fs, handles[h], w.h)
           /\ pending' = w.exc
    /\ UNCHANGED <<man_a, man_b, result,
                   pc, run, ref, seed, allow_net, args_line, builtins_open,
                   socket_socket, subprocess_Popen, sys_argv, undo, events,
                   prev_hash, start_mono, start_wall, env, mono, cwd, numpy_ok,
                   socks, real_net, spawned, returned, raised>>

\* handle.writelines(lines) on an IOShim
Writelines(h, lines) ==
    /\ Alive /\ Budget
    /\ h \in DOMAIN handles
    /\ Record([name |-> "writelines", h |-> h, lines |-> lines])
    /\ LET w == IOShim_writelines(handles[h], lines, 0)
       IN  /\ handles' = [handles EXCEPT ![h] = w.h]
           /\ fs' = Flush(fs, handles[h], w.h)
           /\ pending' = w.exc
    /\ UNCHANGED <<man_a, man_b, result,
                   pc, run, ref, seed, allow_net, args_line, builtins_open,
                   socket_socket, subprocess_Popen, sys_argv, undo, events,
                   prev_hash, start_mono, start_wall, env, mono, cwd, numpy_ok,
                   socks, real_net, spawned, returned, raised>>

\* handle.close() on an IOShim
Close(h) ==
    /\ Alive /\ Budget
    /\ h \in DOMAIN handles
    /\ Record([name |-> "close", h |-> h])
    /\ LET c == IOShim_close(handles[h], Logger, mono)
       IN  /\ handles' = [handles EXCEPT ![h] = c.h]
           /\ SetLogger(c.L)
    /\ UNCHANGED <<man_a, man_b, result,
                   pc, run, ref, seed, allow_net, args_line, builtins_open,
                   socket_socket, subprocess_Popen, sys_argv, undo,
                   start_mono, start_wall, env, mono, cwd, fs, numpy_ok, socks,
                   real_net, spawned, pending, returned, raised>>

\* handle.flush() on an IOShim
CallFlush(h) ==
    /\ Alive /\ Budget
    /\ h \in DOMAIN handles
    /\ Record([name |-> "flush", h |-> h])
    /\ pending' = IF IOShim_getattr("flush") = "file"
                  THEN f_flush_exc(handles[h]) ELSE NoExc
    /\ UNCHANGED <<man_a, man_b, result,
                   pc, run, ref, seed, allow_net, args_line, builtins_open,
                   socket_socket, subprocess_Popen, sys_argv, undo, events,
                   prev_hash, start_mono, start_wall, env, mono, cwd, fs,
                   handles, numpy_ok, socks, real_net, spawned, returned,
                   raised>>

\* "with handle:" on an IOShim: the statement looks up __enter__ and
\* __exit__ and calls __enter__, which returns the file
With(h, e) ==
    /\ InTarget /\ Budget
    /\ h \in DOMAIN handles
    /\ Record([name |-> "with", h |-> h, e |-> e])
    /\ pending' = IF special_lookup("__enter__") = "missing"
                      \/ special_lookup("__exit__") = "missing"
                  THEN e
                  ELSE IF handles[h].f_closed THEN "ValueError" ELSE NoExc
    /\ UNCHANGED <<man_a, man_b, result,
                   pc, run, ref, seed, allow_net, args_line, builtins_open,
                   socket_socket, subprocess_Popen, sys_argv, undo, events,
                   prev_hash, start_mono, start_wall, env, mono, cwd, fs,
                   handles, numpy_ok, socks, real_net, spawned, returned,
                   raised>>

\* the target calls os.chdir
Chdir ==
    /\ InTarget /\ Budget
    /\ Record([name |-> "chdir"])
    /\ cwd' = IF cwd = CwdHome THEN CwdTmp ELSE CwdHome
    /\ UNCHANGED <<man_a, man_b, result,
                   pc, run, ref, seed, allow_net, args_line, builtins_open,
                   socket_socket, subprocess_Popen, sys_argv, undo, events,
                   prev_hash, start_mono, start_wall, env, mono, fs, handles,
                   numpy_ok, socks, real_net, spawned, pending, returned,
                   raised>>

\* the target calls socket.socket(...): the name is bound to SocketShim
SocketCreate ==
    /\ InTarget /\ Budget
    /\ socket_socket = "SocketShim"
    /\ Record([name |-> "socket"])
    /\ socks' = socks + 1
    /\ UNCHANGED <<man_a, man_b, result,
                   pc, run, ref, seed, allow_net, args_line, builtins_open,
                   socket_socket, subprocess_Popen, sys_argv, undo, events,
                   prev_hash, start_mono, start_wall, env, mono, cwd, fs, handles,
                   numpy_ok, real_net, spawned, pending, returned, raised>>

\* what the real network call raises, when it is reached
RealExcs == IF allow_net THEN {NoExc, "OSError"} ELSE {NoExc}

NetUnchanged ==
    UNCHANGED <<man_a, man_b, result,
                pc, run, ref, seed, allow_net, args_line, builtins_open,
                socket_socket, subprocess_Popen, sys_argv, undo, start_mono,
                start_wall, env, mono, cwd, fs, handles, numpy_ok, socks, spawned,
                returned, raised>>

NetResult(r) ==
    /\ SetLogger(r.L)
    /\ real_net' = real_net + r.real
    /\ pending' = r.exc

\* sock.connect(address) on a SocketShim
Connect(real_exc) ==
    /\ InTarget /\ Budget /\ socks > 0
    /\ Record([name |-> "connect", exc |-> real_exc])
    /\ NetResult(SocketShim_connect(Logger, mono, Address, real_exc))
    /\ NetUnchanged

\* sock.send(data) on a SocketShim
Send(data, real_exc) ==
    /\ InTarget /\ Budget /\ socks > 0
    /\ Record([name |-> "send", b |-> data, exc |-> real_exc])
    /\ NetResult(SocketShim_send(Logger, mono, data, real_exc))
    /\ NetUnchanged

\* sock.recv(bufsize) on a SocketShim
Recv(bufsize, real_exc) ==
    /\ InTarget /\ Budget /\ socks > 0
    /\ Record([name |-> "recv", bufsize |-> bufsize, exc |-> real_exc])
    /\ NetResult(SocketShim_recv(Logger, mono, bufsize, real_exc))
    /\ NetUnchanged

\* the target calls subprocess.Popen(args): the name is bound to PopenShim
Popen(args) ==
    /\ InTarget /\ Budget
    /\ subprocess_Popen = "PopenShim"
    /\ Record([name |-> "popen", args |-> args])
    /\ SetLogger(PopenShim_init(Logger, mono, args))
    /\ spawned' = spawned + 1
    /\ UNCHANGED <<man_a, man_b, result,
                   pc, run, ref, seed, allow_net, args_line, builtins_open,
                   socket_socket, subprocess_Popen, sys_argv, undo,
                   start_mono, start_wall, env, mono, cwd, fs, handles, numpy_ok,
                   socks, real_net, pending, returned, raised>>

\* an independent second run of the same target on the same inputs
Rerun ==
    /\ run = 1
    /\ pc \in {"returned", "raised"}
    /\ pending = NoExc
    /\ run' = 2 /\ pos' = 0 /\ pc' = "idle"
    /\ ref' = [returned |-> returned, raised |-> raised, events |-> events]
    /\ cwd' = CwdHome /\ fs' = InitFs
    /\ handles' = <<>> /\ socks' = 0 /\ real_net' = 0 /\ spawned' = 0
    /\ returned' = None /\ raised' = NoExc /\ undo' = None
    /\ UNCHANGED <<man_a, man_b, result,
                   trace, seed, allow_net, args_line, builtins_open,
                   socket_socket, subprocess_Popen, sys_argv, events,
                   prev_hash, start_mono, start_wall, env, mono, numpy_ok, pending>>

----------------------------------------------------------------------------
(* verify_run and the diff command *)

\* d.get(key): a Python value that may be None is <<v>>, and None is <<>>
get(d, key) == IF key \in DOMAIN d THEN <<d[key]>> ELSE <<>>

\* the args_line verify_run passes to run_instrumented
verify_args(refm) ==
    IF refm.events # <<>>
    THEN join(IF "args" \in DOMAIN refm.events[1]
              THEN refm.events[1].args ELSE <<>>)
    ELSE None

\* the selected fields, in the order verify_run compares them
CompareKeys == <<"path", "sha256", "bytes", "cmd", "host", "port">>

\* the inner loop of verify_run over the selected fields of one event pair
RECURSIVE compare_fields(_, _, _, _)
compare_fields(ea, eb, i, keys) ==
    IF keys = <<>> THEN <<>>
    ELSE LET key == keys[1]
             va == get(ea, key)
             vb == get(eb, key)
         IN  (IF va # vb
              THEN <<[index |-> i, field |-> key, ref |-> va, now |-> vb]>>
              ELSE <<>>) \o compare_fields(ea, eb, i, Tail(keys))

\* the loop "for i in range(n)" of verify_run, from index i (counted from 0)
RECURSIVE compare_events(_, _, _, _)
compare_events(a, b, i, n) ==
    IF i >= n THEN <<>>
    ELSE LET ea == a[i + 1]
             eb == b[i + 1]
         IN  (IF ea.kind # eb.kind
              THEN <<[index |-> i, field |-> "kind",
                      ref |-> <<ea.kind>>, now |-> <<eb.kind>>]>>
              ELSE compare_fields(ea, eb, i, CompareKeys))
                 \o compare_events(a, b, i + 1, n)

\* the list diffs of verify_run for the event lists a and b
verify_diffs(a, b) ==
    LET n == IF Len(a) < Len(b) THEN Len(a) ELSE Len(b)
    IN  compare_events(a, b, 0, n)
            \o (IF Len(a) # Len(b)
                THEN <<[index |-> "len", ref |-> <<Len(a)>>,
                        now |-> <<Len(b)>>]>>
                ELSE <<>>)

\* the dict verify_run returns for the reference manifest and the re-run's
verify_result(refm, now) ==
    LET diffs == verify_diffs(refm.events, now.events)
    IN  [ok |-> Len(diffs) = 0, diffs |-> diffs,
         reference_root |-> refm.root_hash, now_root |-> now.root_hash]

\* diff_lines with a "break" after the first line printed
RECURSIVE diff_lines_break(_, _, _)
diff_lines_break(kinds_a, kinds_b, i) ==
    IF kinds_a = <<>> \/ kinds_b = <<>> THEN <<>>
    ELSE IF kinds_a[1] # kinds_b[1]
    THEN <<<<"@", i, ": ", kinds_a[1], " != ", kinds_b[1]>>>>
    ELSE diff_lines_break(Tail(kinds_a), Tail(kinds_b), i + 1)

\* the loop of the diff command over zip(kinds_a, kinds_b): one printed line
\* "@{i}: {ka} != {kb}", as the pieces of the f-string, per mismatch
RECURSIVE diff_lines(_, _, _)
diff_lines(kinds_a, kinds_b, i) ==
    IF kinds_a = <<>> \/ kinds_b = <<>> THEN <<>>
    ELSE (IF kinds_a[1] # kinds_b[1]
          THEN <<<<"@", i, ": ", kinds_a[1], " != ", kinds_b[1]>>>>
          ELSE <<>>) \o diff_lines(Tail(kinds_a), Tail(kinds_b), i + 1)

\* what the diff command prints for the manifests A and B, line by line
diff_output(A, B) ==
    LET kinds_a == [i \in DOMAIN A.events |-> A.events[i].kind]
        kinds_b == [i \in DOMAIN B.events |-> B.events[i].kind]
    IN  <<<<"root a:", A.root_hash>>, <<"root b:", B.root_hash>>,
          <<"len a:", Len(kinds_a), "len b:", Len(kinds_b)>>>>
            \o diff_lines(kinds_a, kinds_b, 0)

\* the manifest as json.dump writes it and json.load reads it back
saved(m, evs) == [events |-> evs] @@ m

\* verify_run on the manifest the first run wrote: the re-run is started
\* with the arguments taken from the reference
VerifyStart ==
    /\ run = 1 /\ pc = "returned" /\ pending = NoExc
    /\ run' = 2 /\ pos' = 0 /\ pc' = "idle"
    /\ man_a' = saved(returned, ManifestEvents)
    /\ args_line' = verify_args(man_a')
    /\ ref' = [returned |-> returned, raised |-> raised, events |-> events]
    /\ cwd' = CwdHome /\ fs' = InitFs
    /\ handles' = <<>> /\ socks' = 0 /\ real_net' = 0 /\ spawned' = 0
    /\ returned' = None /\ raised' = NoExc /\ undo' = None
    /\ UNCHANGED <<man_b, result, trace, seed, allow_net, builtins_open,
                   socket_socket, subprocess_Popen, sys_argv, events,
                   prev_hash, start_mono, start_wall, env, mono, numpy_ok,
                   pending>>

\* verify_run after the re-run returned: the comparison and the result
VerifyFinish ==
    /\ run = 2 /\ pc = "returned" /\ pending = NoExc
    /\ man_a # None /\ result = None
    /\ man_b' = saved(returned, ManifestEvents)
    /\ result' = [cmd |-> "verify", out |-> verify_result(man_a, man_b')]
    /\ UNCHANGED <<man_a, pc, run, trace, pos, ref, seed, allow_net,
                   args_line, builtins_open, socket_socket, subprocess_Popen,
                   sys_argv, undo, events, prev_hash, start_mono, start_wall,
                   env, mono, cwd, fs, handles, numpy_ok, socks, real_net,
                   spawned, pending, returned, raised>>

\* the longest event list of a manifest given to verify or diff
MaxLen == 2

\* log calls behind the manifests given to verify and diff: an open, the
\* same open one clock tick later, an open of another path, a close with
\* its hash and a close logged without one
Calls ==
    {[t |-> 0, kind |-> "file_open",
      fields |-> [path |-> abspath(CwdHome, OutBin), mode |-> ModeWB]],
     [t |-> 1, kind |-> "file_open",
      fields |-> [path |-> abspath(CwdHome, OutBin), mode |-> ModeWB]],
     [t |-> 0, kind |-> "file_open",
      fields |-> [path |-> abspath(CwdTmp, OutBin), mode |-> ModeWB]],
     [t |-> 0, kind |-> "file_write_close",
      fields |-> [path |-> abspath(CwdHome, OutBin), bytes |-> 2,
                  sha256 |-> SHA256(<<1, 2>>)]],
     [t |-> 0, kind |-> "file_write_close",
      fields |-> [path |-> abspath(CwdHome, OutBin), bytes |-> 2]]}

CallLists == UNION {[1..n -> Calls] : n \in 0..MaxLen}

\* the logger after the log calls, each made at its own time
RECURSIVE log_each(_, _)
log_each(L, calls) ==
    IF calls = <<>> THEN L
    ELSE log_each(log(L, calls[1].t, calls[1].kind, calls[1].fields),
                  Tail(calls))

\* the manifest file of a logger that made the calls
written(calls) ==
    LET L == log_each([events |-> <<>>, prev_hash |-> ZeroHash], calls)
    IN  saved(manifest_of(L.events), L.events)

\* the comparison of verify_run on two loaded manifests
VerifyLists ==
    /\ man_a # None /\ man_b # None /\ result = None
    /\ result' = [cmd |-> "verify", out |-> verify_result(man_a, man_b)]
    /\ UNCHANGED <<man_a, man_b, pc, run, trace, pos, ref, seed, allow_net,
                   args_line, builtins_open, socket_socket, subprocess_Popen,
                   sys_argv, undo, events, prev_hash, start_mono, start_wall,
                   env, mono, cwd, fs, handles, numpy_ok, socks, real_net,
                   spawned, pending, returned, raised>>

\* the diff command on two loaded manifests
DiffLists ==
    /\ man_a # None /\ man_b # None /\ result = None
    /\ result' = [cmd |-> "diff", out |-> diff_output(man_a, man_b)]
    /\ UNCHANGED <<man_a, man_b, pc, run, trace, pos, ref, seed, allow_net,
                   args_line, builtins_open, socket_socket, subprocess_Popen,
                   sys_argv, undo, events, prev_hash, start_mono, start_wall,
                   env, mono, cwd, fs, handles, numpy_ok, socks, real_net,
                   spawned, pending, returned, raised>>

----------------------------------------------------------------------------
(* Specifications *)

Orchestrator ==
    \/ Tick
    \/ Construct
    \/ SeedAll
    \/ Begin
    \/ TargetReturn
    \/ \E e \in TargetExcs \cup {pending} : TargetRaise(e)
    \/ Catch

FileOps ==
    \/ \E a \in OpenArgs : Open(a[1], a[2])
    \/ \E h \in DOMAIN handles, b \in Payloads : Write(h, b)
    \/ \E h \in DOMAIN handles, ls \in LineLists : Writelines(h, ls)
    \/ \E h \in DOMAIN handles : Close(h)
    \/ \E h \in DOMAIN handles : CallFlush(h)
    \/ \E h \in DOMAIN handles, e \in WithExcs : With(h, e)
    \/ Chdir

NetOps ==
    \/ SocketCreate
    \/ \E x \in RealExcs : Connect(x)
    \/ \E d \in SendData, x \in RealExcs : Send(d, x)
    \/ \E n \in BufSizes, x \in RealExcs : Recv(n, x)
    \/ \E a \in PopenArgs : Popen(a)

\* a run, with the network denied, of a target that works on files
Init == InitWith({FALSE}, {None}, {FALSE})

Next == Orchestrator \/ FileOps

Spec == Init /\ [][Next]_vars

\* a run of a target that uses sockets and subprocesses
InitNet == InitWith(BOOLEAN, ArgsLines, BOOLEAN)

NextNet == Orchestrator \/ NetOps

SpecNet == InitNet /\ [][NextNet]_vars

\* two independent runs of one target on the same inputs
InitTwoRuns == InitWith(BOOLEAN, {None}, {FALSE})

NextTwoRuns == Orchestrator \/ NetOps \/ Rerun

SpecTwoRuns == InitTwoRuns /\ [][NextTwoRuns]_vars

\* a run whose manifest is then the reference of verify_run
InitVerify == InitWith({FALSE}, ArgsLines, {FALSE})

NextVerify == Orchestrator \/ NetOps \/ VerifyStart \/ VerifyFinish

SpecVerify == InitVerify /\ [][NextVerify]_vars

\* verify's comparison and the diff command on two manifest files
InitCompare ==
    /\ InitRun({FALSE}, {None}, {FALSE})
    /\ man_a \in {written(c) : c \in CallLists}
    /\ man_b \in {written(c) : c \in CallLists}
    /\ result = None

NextCompare == VerifyLists \/ DiffLists

SpecCompare == InitCompare /\ [][NextCompare]_vars

----------------------------------------------------------------------------
(* Properties *)

Last(q) == q[Len(q)]

\* the step appended exactly one event, of the given kind
OneEvent(kind) ==
    /\ Len(events') = Len(events) + 1
    /\ SubSeq(events', 1, Len(events)) = events
    /\ Last(events').kind = kind

KindCount(kind) == Cardinality({i \in DOMAIN events : events[i].kind = kind})

\* C1: two runs of one target, with the same seed and policy, that make the
\* same boundary calls on the same inputs return the same root_hash,
\* whatever the clock read at each log call.
C1_SameRootHash ==
    (run = 2 /\ pc = "returned" /\ ref.returned # None)
        => returned.root_hash = ref.returned.root_hash

\* C2: with the network denied, each connect, send and recv on a SocketShim
\* appends exactly one event (net_block, net_block_send, net_block_recv),
\* fails with the policy error, and never reaches the real socket call.
C2_PolicyEnforced ==
    [][~allow_net =>
        /\ \A x \in RealExcs : Connect(x) =>
              (OneEvent("net_block") /\ pending' = PolicyError
                                     /\ real_net' = real_net)
        /\ \A d \in SendData, x \in RealExcs : Send(d, x) =>
              (OneEvent("net_block_send") /\ pending' = PolicyError
                                          /\ real_net' = real_net)
        /\ \A n \in BufSizes, x \in RealExcs : Recv(n, x) =>
              (OneEvent("net_block_recv") /\ pending' = PolicyError
                                          /\ real_net' = real_net)]_vars

\* C2 witness: a send was blocked
C2_Witness ==
    /\ ~allow_net /\ pending = PolicyError /\ real_net = 0
    /\ events # <<>> /\ Last(events).kind = "net_block_send"

\* C3: when the caller of run_instrumented regains control, by a return or
\* by any failure, builtins.open, socket.socket, subprocess.Popen and
\* sys.argv have their values of before the run.
C3_Restored ==
    pc \in {"returned", "raised"} =>
        /\ builtins_open = "builtins.open"
        /\ socket_socket = "socket.socket"
        /\ subprocess_Popen = "subprocess.Popen"
        /\ sys_argv = CallerArgv

\* C3 witness: the target left by SystemExit, after sys.argv held its args
C3_Witness ==
    /\ pc = "raised" /\ raised = "SystemExit" /\ args_line # None
    /\ builtins_open = "builtins.open" /\ sys_argv = CallerArgv

\* C4: every failure that leaves the target, sys.exit included, has put
\* exactly one end event, with status "exception" and an error field, in
\* the log by the time it reaches the caller.
C4_EndEventOnFailure ==
    raised # NoExc =>
        /\ KindCount("end") = 1
        /\ \A i \in DOMAIN events : events[i].kind = "end" =>
              (events[i].status = "exception" /\ "error" \in DOMAIN events[i])

\* C5: when the target fails, the caller still gets the manifest of the
\* run, besides the failure.
C5_ManifestOnFailure == raised # NoExc => returned # None

\* C6: log only appends; each event's chain is SHA256 of the previous chain
\* (all zeros for the first event) followed by the hash of the event without
\* its chain field; prev_hash is the chain of the last event, or all zeros.
ChainOK(evs, prev) ==
    /\ \A i \in DOMAIN evs :
          LET e == evs[i]
              body == [k \in DOMAIN e \ {"chain"} |-> e[k]]
              before == IF i = 1 THEN ZeroHash ELSE evs[i - 1].chain
          IN  e.chain = SHA256(<<before, SHA256(dumps(body))>>)
    /\ prev = IF evs = <<>> THEN ZeroHash ELSE Last(evs).chain

C6_HashChain ==
    [][/\ ChainOK(events, prev_hash)
       /\ ChainOK(events', prev_hash')
       /\ Len(events') >= Len(events)
       /\ SubSeq(events', 1, Len(events)) = events]_vars

\* C6 witness: a log of several events that ends with a file event
C6_Witness ==
    /\ Len(events) >= 5
    /\ Last(events).kind = "file_write_close"
    /\ prev_hash = Last(events).chain

\* C7: once manifest() has returned, log() is rejected, so the events of
\* the manifest never change and its root_hash is the hash of its events.
C7_ManifestFrozen ==
    returned # None =>
        returned.root_hash = _hash_dict([events |-> ManifestEvents])

\* C8: an open in a read mode of a file that exists appends exactly one
\* file_open_read event and returns the file.
C8_ReadOpenLogged ==
    [][\A a \in OpenArgs :
         (Open(a[1], a[2]) /\ "r" \in Range(a[2]) /\ exists(abspath(cwd, a[1])))
             => (OneEvent("file_open_read") /\ pending' = NoExc)]_vars

C10_OneCloseEvent ==
    KindCount("file_write_close")
        = Cardinality({h \in DOMAIN handles : handles[h].f_closed})

\* C11: a str written to an open handle that was opened in a text write mode
\* is accepted: the write raises nothing, the file receives the text, and
\* the handle accounts for the bytes of its encoding.
C11_TextWrite ==
    [][\A h \in DOMAIN handles, b \in Payloads :
         (Write(h, b) /\ b.type = "str"
             /\ handles[h].f_text /\ ~handles[h].f_closed)
             => /\ pending' = NoExc
                /\ handles'[h].delivered
                       = handles[h].delivered \o encode(b.data)
                /\ handles'[h]._written
                       = handles[h]._written + Len(encode(b.data))]_vars

\* C12: the target of the re-run that verify_run starts is given the
\* argument list that the reference run recorded in its begin event.
C12_ReplayArgs ==
    (run = 2 /\ pc = "target")
        => \A i \in DOMAIN man_a.events :
               man_a.events[i].kind = "begin"
                   => Tail(sys_argv) = man_a.events[i].args

\* the result of verify's comparison is there
Verified == result # None /\ result.cmd = "verify"

\* C13: verify's ok is true exactly when the two event lists have the same
\* length and, at every index both have, the same kind and equal values of
\* each selected field that both events define.
C13_VerifyOk ==
    Verified =>
        LET a == man_a.events
            b == man_b.events
        IN  result.out.ok
                <=> /\ Len(a) = Len(b)
                    /\ \A i \in DOMAIN a \cap DOMAIN b :
                         /\ a[i].kind = b[i].kind
                         /\ \A key \in Range(CompareKeys) :
                              key \in DOMAIN a[i] \cap DOMAIN b[i]
                                  => a[i][key] = b[i][key]

\* the output of the diff command is there
Diffed == result # None /\ result.cmd = "diff"

\* C14: diff prints the two root hashes, the two event counts and then one
\* line per index, below both counts, at which the kinds differ, with the
\* two kinds, in increasing index order and no other line; a manifest
\* diffed against itself gives no such line and equal roots.
C14_Diff ==
    Diffed =>
        LET a == man_a.events
            b == man_b.events
            out == result.out
            lines == SubSeq(out, 4, Len(out))
            mismatches == {i \in 0..(Len(a) - 1) \cap 0..(Len(b) - 1) :
                             a[i + 1].kind # b[i + 1].kind}
        IN  /\ out[1] = <<"root a:", man_a.root_hash>>
            /\ out[2] = <<"root b:", man_b.root_hash>>
            /\ out[3] = <<"len a:", Len(a), "len b:", Len(b)>>
            /\ Len(lines) = Cardinality(mismatches)
            /\ \A j \in DOMAIN lines :
                 LET i == lines[j][2]
                 IN  /\ i \in mismatches
                     /\ lines[j] = <<"@", i, ": ", a[i + 1].kind,
                                     " != ", b[i + 1].kind>>
            /\ \A j, k \in DOMAIN lines : j < k => lines[j][2] < lines[k][2]
            /\ man_a = man_b => (lines = <<>> /\ out[1][2] = out[2][2])

\* C14 witness: a diff of two manifests of two events each, with the kinds
\* differing at both indices, printed two lines
C14_Witness ==
    /\ Diffed
    /\ Len(man_a.events) = 2 /\ Len(man_b.events) = 2
    /\ Len(result.out) = 5
    /\ result.out[4][2] = 0 /\ result.out[5][2] = 1

\* an event as it was given to _chain: without its chain entry
Unchained(e) == [k \in DOMAIN e \ {"chain"} |-> e[k]]

\* the indices both logs have at which their events differ
Differing(a, b) ==
    {i \in DOMAIN a \cap DOMAIN b : Unchained(a[i]) # Unchained(b[i])}

\* C15: two logs that first differ at event k have different chain values
\* at every index from k on that both have, and different root hashes.
C15_ChainIntegrity ==
    (man_a # None /\ man_b # None) =>
        LET a == man_a.events
            b == man_b.events
        IN  /\ \A k \in Differing(a, b) :
                 \A i \in DOMAIN a \cap DOMAIN b :
                     i >= k => a[i].chain # b[i].chain
            /\ (Differing(a, b) # {} \/ Len(a) # Len(b))
                   => man_a.root_hash # man_b.root_hash

\* C15 witness: two logs of two events that differ in one field of the
\* first event and agree on the second, whose chain values differ
C15_Witness ==
    /\ man_a # None /\ man_b # None
    /\ Len(man_a.events) = 2 /\ Len(man_b.events) = 2
    /\ Differing(man_a.events, man_b.events) = {1}
    /\ man_a.events[1].kind = man_b.events[1].kind
    /\ man_a.events[2].chain # man_b.events[2].chain

\* the events with other values in their chain entries
Rechained(evs) == [i \in DOMAIN evs |-> [evs[i] EXCEPT !.chain = ZeroHash]]

\* C16: root_hash depends on the ordered event list only: the reference and
\* the re-run's manifest have equal root hashes when their event lists are
\* equal, whatever their start times, and the chain values of the events
\* are no input of root_hash, which stays the same when they are replaced.
C16_RootOfEvents ==
    Verified =>
        /\ man_a.events = man_b.events => man_a.root_hash = man_b.root_hash
        /\ man_b.root_hash = _hash_dict([events |-> Rechained(man_b.events)])

\* the kinds of the events that the interceptors log
InterceptorKinds ==
    {"file_open", "file_open_read", "file_write_close", "net_connect",
     "net_block", "net_send", "net_block_send", "net_recv", "net_block_recv",
     "subprocess_spawn"}

\* the seeding events, one per source, then one begin, then interceptor
\* events only, then one end{ok}
SeedBeginTargetEnd(evs) ==
    /\ Len(evs) >= 4
    /\ evs[1].kind = "rng_seed" /\ evs[1].lib = "random"
    /\ evs[2].kind \in {"rng_seed", "rng_seed_skip"} /\ evs[2].lib = "numpy"
    /\ evs[3].kind = "begin"
    /\ \A i \in 4..(Len(evs) - 1) : evs[i].kind \in InterceptorKinds
    /\ Last(evs).kind = "end" /\ Last(evs).status = "ok"

\* C17: the random sources are seeded while the interception layer is not
\* yet installed, and the events of a returned manifest are the seeding
\* events, one begin, the events of the target and one end{ok}, in this
\* order.
C17_EventOrder ==
    [][/\ SeedAll => /\ builtins_open = "builtins.open"
                     /\ socket_socket = "socket.socket"
                     /\ subprocess_Popen = "subprocess.Popen"
       /\ TargetReturn => SeedBeginTargetEnd(events')]_vars

\* the entries of diffs that the loop over the indices appended: all of
\* them, or all but the last when the lengths differ
IndexDiffs(diffs, a, b) ==
    IF Len(a) # Len(b) THEN SubSeq(diffs, 1, Len(diffs) - 1) ELSE diffs

\* an index with different kinds has one entry, for "kind"; the entries are
\* in index order; different lengths add one entry, at the end
DiffsInOrder(diffs, a, b) ==
    LET body == IndexDiffs(diffs, a, b)
        at(i) == {j \in DOMAIN body : body[j].index = i - 1}
    IN  /\ \A j \in DOMAIN body :
             body[j].index + 1 \in DOMAIN a \cap DOMAIN b
        /\ \A i \in DOMAIN a \cap DOMAIN b :
             IF a[i].kind # b[i].kind
             THEN /\ Cardinality(at(i)) = 1
                  /\ \A j \in at(i) :
                       /\ body[j].field = "kind"
                       /\ body[j].ref = <<a[i].kind>>
                       /\ body[j].now = <<b[i].kind>>
             ELSE \A j \in at(i) : body[j].field # "kind"
        /\ \A j, k \in DOMAIN body : j < k => body[j].index <= body[k].index
        /\ Len(a) # Len(b)
               => /\ Len(diffs) >= 1
                  /\ Last(diffs).ref = <<Len(a)>>
                  /\ Last(diffs).now = <<Len(b)>>

\* C18: in the divergence list of verify, an index with different kinds has
\* exactly one entry, for the field "kind"; the entries of the indices are
\* in increasing index order; different lengths add exactly one entry after
\* them and equal lengths none; and every entry has an index, a field, a
\* reference value and an observed value.
C18_DivergenceShape ==
    Verified =>
        /\ DiffsInOrder(result.out.diffs, man_a.events, man_b.events)
        /\ \A j \in DOMAIN result.out.diffs :
             {"index", "field", "ref", "now"}
                 \subseteq DOMAIN result.out.diffs[j]

\* C19: an operation other than write, writelines and close on a handle of
\* the intercepted open has the outcome it has on the file itself: flush
\* fails only on a closed file, and a with statement on an open handle is
\* entered without an exception.
C19_PassThrough ==
    [][\A h \in DOMAIN handles :
         /\ CallFlush(h) => pending' = f_flush_exc(handles[h])
         /\ \A e \in WithExcs :
              (With(h, e) /\ ~handles[h].f_closed) => pending' = NoExc]_vars

\* C20: when verify_run returns ok = true for a reference that a run
\* produced, the two root hashes it returns are equal.
C20_OkMeansSameRoot ==
    (Verified /\ result.out.ok)
        => result.out.reference_root = result.out.now_root

====
